---------------------------- MODULE Spec2Model ----------------------------
(***************************************************************************)
(* The domainforge daemon: the DomainForge registry (records map guarded  *)
(* by one mutex, bonjour advertisement handles), the broadcaster, the      *)
(* admin protocol handler and the run loop, as a state machine.            *)
(*                                                                         *)
(* Strings are TLA+ strings; TLC evaluates Len, SubSeq and \o on them, so  *)
(* TrimSpace, Fields, Atoi and the "%s.local" formatting are computed      *)
(* character by character as the Go code computes them.                    *)
(***************************************************************************)
EXTENDS Integers, Sequences, FiniteSets, TLC

(***************************************************************************)
(* Bounds of the model.                                                    *)
(***************************************************************************)
\* connections that can be open at the same time (one handler goroutine each)
MaxConns == 1
\* bonjour.RegisterProxy calls that succeed during one run of the daemon
MaxServers == 2

Conns == 1..MaxConns

(***************************************************************************)
(* Strings.                                                                *)
(***************************************************************************)
Char(s, i) == SubSeq(s, i, i)

\* unicode.IsSpace, restricted to the characters a TLA+ string can hold
IsSpace(ch) == ch \in {" ", "\t", "\n", "\r", "\f"}

RECURSIVE TrimLeft(_)
TrimLeft(s) ==
    IF Len(s) > 0 /\ IsSpace(Char(s, 1)) THEN TrimLeft(SubSeq(s, 2, Len(s))) ELSE s

RECURSIVE TrimRight(_)
TrimRight(s) ==
    IF Len(s) > 0 /\ IsSpace(Char(s, Len(s)))
    THEN TrimRight(SubSeq(s, 1, Len(s) - 1))
    ELSE s

\* strings.TrimSpace
TrimSpace(s) == TrimRight(TrimLeft(s))

\* index of the first white space character of s at or after i, Len(s)+1 if none
RECURSIVE WordEnd(_, _)
WordEnd(s, i) ==
    IF i > Len(s) \/ IsSpace(Char(s, i)) THEN i ELSE WordEnd(s, i + 1)

\* strings.Fields: the maximal runs of non-space characters, in order
RECURSIVE Fields(_)
Fields(s) ==
    LET t == TrimLeft(s) IN
    IF Len(t) = 0 THEN << >>
    ELSE LET e == WordEnd(t, 1) IN
         << SubSeq(t, 1, e - 1) >> \o Fields(SubSeq(t, e, Len(t)))

Digits == << "0", "1", "2", "3", "4", "5", "6", "7", "8", "9" >>

IsDigit(ch) == \E d \in 1..10 : Digits[d] = ch

DigitVal(ch) == (CHOOSE d \in 1..10 : Digits[d] = ch) - 1

RECURSIVE AllDigits(_)
AllDigits(s) ==
    Len(s) = 0 \/ (IsDigit(Char(s, 1)) /\ AllDigits(SubSeq(s, 2, Len(s))))

RECURSIVE DigitsVal(_)
DigitsVal(s) ==
    IF Len(s) = 0 THEN 0
    ELSE 10 * DigitsVal(SubSeq(s, 1, Len(s) - 1)) + DigitVal(Char(s, Len(s)))

\* strconv.Atoi: an optional sign and at least one decimal digit
Atoi(s) ==
    LET signed == Len(s) > 0 /\ Char(s, 1) \in {"+", "-"}
        body   == IF signed THEN SubSeq(s, 2, Len(s)) ELSE s
    IN  IF Len(body) = 0 \/ ~AllDigits(body)
        THEN [ok |-> FALSE, val |-> 0]
        ELSE [ok |-> TRUE,
              val |-> IF signed /\ Char(s, 1) = "-" THEN 0 - DigitsVal(body)
                      ELSE DigitsVal(body)]

RECURSIVE NatStr(_)
NatStr(n) == IF n < 10 THEN Digits[n + 1] ELSE NatStr(n \div 10) \o Digits[(n % 10) + 1]

\* the %d verb of fmt
Itoa(n) == IF n < 0 THEN "-" \o NatStr(0 - n) ELSE NatStr(n)

(***************************************************************************)
(* Inputs.  The request lines a client may send, and the error texts of    *)
(* the collaborators whose failure is an input of the daemon.              *)
(***************************************************************************)
RequestLines ==
    { "add foo --port 80", "add foo.local --port 80", "add foo", "add foo --port x",
      "remove foo", "remove foo.local", "remove",
      "list", "stop", "bogus", "" }

\* the error utils.ReadConfig returns for an unreadable config.json
ConfigErrs == { "unexpected end of JSON input" }

\* the error addQulesServerBlock returns when the reverse proxy rejects the route
RouteErrs == { "qules admin unreachable" }

(***************************************************************************)
(* State.                                                                  *)
(***************************************************************************)
VARIABLES
    status,      \* "running"; "exited": run returned; "fatal": log.Fatalln; "panic: ..."
    records,     \* df.records: key -> [service, host, server]
    servers,     \* every *bonjour.Server registered so far: Shutdown() calls made on it
    mu,          \* df.mu: its holder
    cancelled,   \* ctx is cancelled
    doneClosed,  \* doneChan is closed
    mainPc,      \* run's select loop: "select", "shutdown", "shutdown_ret", "return"
    accPc,       \* the acceptance goroutine: "accept", "send", "exited"
    accConn,     \* the connection it is sending on the connections channel (0: none)
    bcPc,        \* startBroadcast: "select", "loop", "exited"
    bcTodo,      \* the keys broadcastAll's range loop has still to visit
    conn,        \* per connection: handleConnection's position and locals
    added,       \* history: the keys whose Add returned nil and that no Remove has
                 \*   deleted since
    removed      \* history: the keys of added that a Remove that returned nil has
                 \*   deleted

vars == << status, records, servers, mu, cancelled, doneClosed, mainPc, accPc,
           accConn, bcPc, bcTodo, conn, added, removed >>

\* holders of df.mu
Free == << "free", 0 >>
Main == << "run", 0 >>
Bc == << "broadcastAll", 0 >>
Handler(c) == << "handleConnection", c >>

\* handleConnection before Scan: pc, and its locals line (scanner.Text(), kept
\* while the reply depends on it), domain, port, err, domains, and Add's s1
IdleConn ==
    [pc |-> "free", line |-> "", domain |-> "", port |-> 0, s1 |-> 0, err |-> "",
     domains |-> << >>]

NoRecords == [k \in {} |-> k]

Init ==
    /\ status = "running"
    /\ records = NoRecords
    /\ servers = << >>
    /\ mu = Free
    /\ cancelled = FALSE
    /\ doneClosed = FALSE
    /\ mainPc = "select"
    /\ accPc = "accept"
    /\ accConn = 0
    /\ bcPc = "select"
    /\ bcTodo = {}
    /\ conn = [c \in Conns |-> IdleConn]
    /\ added = {}
    /\ removed = {}

(***************************************************************************)
(* The registry (DomainForge).                                             *)
(***************************************************************************)
\* fmt.Sprintf("%s.local", clean)
fullDomain(clean) == clean \o ".local"

\* fmt.Sprintf("%s.", fullDomain)
fullHost(full) == full \o "."

\* fmt.Sprintf("_%s._tcp", clean)
serviceName(clean) == "_" \o clean \o "._tcp"

AlreadyRegistered(full) == "domain " \o full \o " already registered"

NotRegistered(domain) == "domain " \o domain \o " not registered"

RouteFailure(e) == "failed to add Qules server block: " \o e

\* delete(m, k)
DeleteKey(m, k) == [x \in DOMAIN m \ {k} |-> m[x]]

\* m[k] = v
SetKey(m, k, v) == [x \in DOMAIN m \cup {k} |-> IF x = k THEN v ELSE m[x]]

\* server.Shutdown() on the handle h
ShutdownServer(srvs, h) == [srvs EXCEPT ![h] = @ + 1]

\* Shutdown's loop: rec.server.Shutdown() for every record of the map
ShutdownAll(recs, srvs) ==
    [i \in 1..Len(srvs) |->
        srvs[i] + Cardinality({ k \in DOMAIN recs : recs[k].server = i })]

\* the sequences List can return: every key once, in the map's iteration order
Snapshots(recs) ==
    { s \in [1..Cardinality(DOMAIN recs) -> DOMAIN recs] :
        \A k \in DOMAIN recs : \E i \in DOMAIN s : s[i] = k }

\* the error of utils.GetLocalIP() when no interface has a usable IPv4 address
ResolverErr == "no suitable local IP address found"

\* the error of a bonjour.RegisterProxy call that fails
AdvertiserErr == "bonjour: could not register the service"

\* Add up to the insertion of the record: what it returns early with (kind
\* "error"), that it ends the process with err in hand (kind "fatal"), or the
\* map and the handles after the insertion (kind "inserted")
AddRegister(recs, srvs, domain, cfgErr, ipOk, regOk) ==
    LET clean == TrimSpace(domain)
        full  == fullDomain(clean)
        same  == [records |-> recs, servers |-> srvs, s1 |-> 0]
    IN  IF cfgErr # "" THEN [kind |-> "error", err |-> cfgErr] @@ same
        ELSE IF ~ipOk THEN [kind |-> "fatal", err |-> ResolverErr] @@ same
        ELSE IF full \in DOMAIN recs
        THEN [kind |-> "error", err |-> AlreadyRegistered(full)] @@ same
        ELSE IF ~regOk THEN [kind |-> "fatal", err |-> AdvertiserErr] @@ same
        ELSE [kind |-> "inserted", err |-> "",
              records |-> SetKey(recs, full, [service |-> serviceName(clean),
                                              host |-> fullHost(full),
                                              server |-> Len(srvs) + 1]),
              servers |-> Append(srvs, 0),
              s1 |-> Len(srvs) + 1]

\* Add after a failed addQulesServerBlock: s1.Shutdown(); delete(df.records, domain)
AddRollback(recs, srvs, domain, s1) ==
    [records |-> DeleteKey(recs, domain), servers |-> ShutdownServer(srvs, s1)]

\* Remove as it would be if it looked the name up the way Add stores it
RemoveNormalized(recs, srvs, domain) ==
    LET full == fullDomain(TrimSpace(domain)) IN
    IF full \notin DOMAIN recs
    THEN [err |-> NotRegistered(domain), records |-> recs, servers |-> srvs]
    ELSE [err |-> "", records |-> DeleteKey(recs, full),
          servers |-> ShutdownServer(srvs, recs[full].server)]

\* Remove as it would be if it released the handle and kept the entry
RemoveKeepsRecord(recs, srvs, domain) ==
    IF domain \notin DOMAIN recs
    THEN [err |-> NotRegistered(domain), records |-> recs, servers |-> srvs]
    ELSE [err |-> "", records |-> recs,
          servers |-> ShutdownServer(srvs, recs[domain].server)]

\* Remove's body, between Lock and the deferred Unlock
Remove(recs, srvs, domain) ==
    IF domain \notin DOMAIN recs
    THEN [err |-> NotRegistered(domain), records |-> recs, servers |-> srvs]
    ELSE [err |-> "", records |-> DeleteKey(recs, domain),
          servers |-> ShutdownServer(srvs, recs[domain].server)]

\* the iteration as it would be if it stored the refreshed record under info.host
RebroadcastByHost(recs, srvs, k) ==
    [records |-> SetKey(DeleteKey(recs, k), recs[k].host,
                        [recs[k] EXCEPT !.server = Len(srvs) + 1]),
     servers |-> Append(ShutdownServer(srvs, recs[k].server), 0)]

\* one iteration of broadcastAll's loop whose RegisterProxy succeeds
Rebroadcast(recs, srvs, k) ==
    [records |-> [recs EXCEPT ![k].server = Len(srvs) + 1],
     servers |-> Append(ShutdownServer(srvs, recs[k].server), 0)]

(***************************************************************************)
(* handleConnection: one request line per connection.  A handler that     *)
(* calls a registry operation takes df.mu in the step that reads its line  *)
(* (until then it waits); in the step in which the operation returns and   *)
(* releases df.mu the handler writes its response and closes the           *)
(* connection.  The response is a function of the handler's locals (the    *)
(* operators PlainReply, AddReply, RemoveReply and ListReply); no other     *)
(* goroutine reads it, so the state does not keep it.                      *)
(***************************************************************************)
Running == status = "running"

Scanning(c) == Running /\ conn[c].pc = "scan"

\* the negation of: len(parts) != 4 || parts[2] != "--port"
AddShape(parts) == IF Len(parts) # 4 THEN FALSE ELSE parts[3] = "--port"

Command(parts, cmd) == IF Len(parts) = 0 THEN FALSE ELSE parts[1] = cmd

\* parts := strings.Fields(scanner.Text()), for every request line
Parts == [line \in RequestLines |-> Fields(line)]

\* the lines that make a call of df.Add
AddLines ==
    { line \in RequestLines :
        /\ Command(Parts[line], "add")
        /\ AddShape(Parts[line])
        /\ Atoi(Parts[line][4]).ok }

\* the lines that make a call of df.Remove
RemoveLines ==
    { line \in RequestLines : Command(Parts[line], "remove") /\ Len(Parts[line]) = 2 }

\* handleConnection as it would be if it answered every such line alike
PlainReplyUnknown(line) == << "Unknown command" >>

\* the lines answered without a call of the registry
PlainLines ==
    { line \in RequestLines \ (AddLines \cup RemoveLines) :
        /\ Len(Parts[line]) > 0
        /\ ~Command(Parts[line], "list")
        /\ ~Command(Parts[line], "stop") }

\* the lines without any field
EmptyLines == { line \in RequestLines : Len(Parts[line]) = 0 }

ListLines == { line \in RequestLines : Command(Parts[line], "list") }

StopLines == { line \in RequestLines : Command(Parts[line], "stop") }

\* what a handler that calls no registry operation writes for its line
PlainReply(line) ==
    LET parts == Parts[line] IN
    IF Command(parts, "add")
    THEN IF ~AddShape(parts)
         THEN << "Invalid command. Usage: add <domain> --port <port>" >>
         ELSE << "Invalid port number: strconv.Atoi: parsing \"" \o parts[4]
                   \o "\": invalid syntax" >>
    ELSE IF Command(parts, "remove")
    THEN << "Invalid command. Usage: remove <domain>" >>
    ELSE << "Unknown command" >>

AddReply(domain, port, err) ==
    IF err # "" THEN << "Error: " \o err >>
    ELSE << "Added domain: " \o domain \o " with port: " \o Itoa(port) >>

RemoveReply(domain, err) ==
    IF err # "" THEN << "Error: " \o err >> ELSE << "Removed domain: " \o domain >>

ListReply(domains) ==
    IF Len(domains) = 0 THEN << "No domains registered" >>
    ELSE << "Registered domains:" >> \o [i \in 1..Len(domains) |-> "- " \o domains[i]]

\* the lines the handler of connection c writes when it returns
Reply(c) ==
    IF conn[c].pc = "plain_ret" THEN PlainReply(conn[c].line)
    ELSE IF conn[c].pc = "add_ret"
    THEN AddReply(conn[c].domain, conn[c].port, conn[c].err)
    ELSE IF conn[c].pc = "remove_ret" THEN RemoveReply(conn[c].domain, conn[c].err)
    ELSE IF conn[c].pc = "list_ret" THEN ListReply(conn[c].domains)
    ELSE << >>

\* the handler returns: the deferred conn.Close()
Closed(c) == conn' = [conn EXCEPT ![c] = IdleConn]

\* scanner.Scan() returns false: the client closed without sending a line
HandleEOF(c) ==
    /\ Scanning(c)
    /\ Closed(c)
    /\ UNCHANGED << status, records, servers, mu, cancelled, doneClosed, mainPc, accPc,
                    accConn, bcPc, bcTodo, added, removed >>

\* parts[0] of a line without any field: index out of range
HandleNoFields(c) ==
    /\ Scanning(c)
    /\ EmptyLines # {}
    /\ status' = "panic: index out of range"
    /\ UNCHANGED << records, servers, mu, cancelled, doneClosed, mainPc, accPc,
                    accConn, bcPc, bcTodo, conn, added, removed >>

\* a malformed add or remove, or an unknown command: the handler reads the line
\* and takes the branch that calls no operation of the registry
HandlePlain(c, line) ==
    /\ Scanning(c)
    /\ line \in PlainLines
    /\ conn' = [conn EXCEPT ![c].pc = "plain_ret", ![c].line = line]
    /\ UNCHANGED << status, records, servers, mu, cancelled, doneClosed, mainPc, accPc,
                    accConn, bcPc, bcTodo, added, removed >>

\* that branch writes PlainReply and the handler returns
PlainReturn(c) ==
    /\ Running /\ conn[c].pc = "plain_ret"
    /\ Closed(c)
    /\ UNCHANGED << status, records, servers, mu, cancelled, doneClosed, mainPc, accPc,
                    accConn, bcPc, bcTodo, added, removed >>

\* a well-formed add: df.Add(domain, port) up to the insertion of the record
HandleAdd(c, line) ==
    /\ Scanning(c)
    /\ line \in AddLines
    /\ mu = Free
    /\ Len(servers) < MaxServers
    /\ \E cfgErr \in ConfigErrs \cup {""}, ipOk \in BOOLEAN, regOk \in BOOLEAN :
        LET domain == Parts[line][2]
            r == AddRegister(records, servers, domain, cfgErr, ipOk, regOk)
        IN  /\ status' = IF r.kind = "fatal" THEN "fatal" ELSE status
            /\ records' = r.records
            /\ servers' = r.servers
            /\ conn' = [conn EXCEPT ![c].pc = IF r.kind = "inserted" THEN "add_route"
                                               ELSE "add_ret",
                                    ![c].domain = domain,
                                    ![c].port = Atoi(Parts[line][4]).val,
                                    ![c].s1 = r.s1,
                                    ![c].err = r.err]
    /\ mu' = Handler(c)
    /\ UNCHANGED << cancelled, doneClosed, mainPc, accPc, accConn, bcPc, bcTodo, added,
                    removed >>

\* Add, the call of addQulesServerBlock and the rollback when it fails
AddRoute(c) ==
    /\ Running /\ conn[c].pc = "add_route"
    /\ \E routeErr \in RouteErrs \cup {""} :
          IF routeErr # ""
          THEN LET r == AddRollback(records, servers, conn[c].domain, conn[c].s1) IN
               /\ servers' = r.servers
               /\ records' = r.records
               /\ conn' = [conn EXCEPT ![c].pc = "add_ret",
                                       ![c].err = RouteFailure(routeErr)]
               /\ UNCHANGED added
          ELSE /\ conn' = [conn EXCEPT ![c].pc = "add_ret"]
               /\ added' = added \cup { fullDomain(TrimSpace(conn[c].domain)) }
               /\ UNCHANGED << records, servers >>
    /\ UNCHANGED << status, mu, cancelled, doneClosed, mainPc, accPc, accConn, bcPc,
                    bcTodo, removed >>

\* Add returns (the deferred Unlock runs); the handler writes AddReply and returns
AddReturn(c) ==
    /\ Running /\ conn[c].pc = "add_ret"
    /\ mu' = Free
    /\ Closed(c)
    /\ UNCHANGED << status, records, servers, cancelled, doneClosed, mainPc, accPc,
                    accConn, bcPc, bcTodo, added, removed >>

\* a well-formed remove: df.Remove(domain) up to its return statement
HandleRemove(c, line) ==
    /\ Scanning(c)
    /\ line \in RemoveLines
    /\ mu = Free
    /\ LET domain == Parts[line][2]
           r == Remove(records, servers, domain)
       IN  /\ records' = r.records
           /\ servers' = r.servers
           /\ conn' = [conn EXCEPT ![c].pc = "remove_ret", ![c].domain = domain,
                                   ![c].err = r.err]
           /\ added' = added \ (DOMAIN records \ DOMAIN r.records)
           /\ removed' = IF r.err = "" THEN removed \cup (added \cap {domain})
                         ELSE removed
    /\ mu' = Handler(c)
    /\ UNCHANGED << status, cancelled, doneClosed, mainPc, accPc, accConn, bcPc,
                    bcTodo >>

\* Remove returns (the deferred Unlock runs); the handler writes RemoveReply and returns
RemoveReturn(c) ==
    /\ Running /\ conn[c].pc = "remove_ret"
    /\ mu' = Free
    /\ Closed(c)
    /\ UNCHANGED << status, records, servers, cancelled, doneClosed, mainPc, accPc,
                    accConn, bcPc, bcTodo, added, removed >>

\* list: df.List() up to its return statement
HandleList(c) ==
    /\ Scanning(c)
    /\ ListLines # {}
    /\ mu = Free
    /\ \E snapshot \in Snapshots(records) :
        conn' = [conn EXCEPT ![c].pc = "list_ret", ![c].domains = snapshot]
    /\ mu' = Handler(c)
    /\ UNCHANGED << status, records, servers, cancelled, doneClosed, mainPc, accPc,
                    accConn, bcPc, bcTodo, added, removed >>

\* List returns (the deferred Unlock runs); the handler writes ListReply and returns
ListReturn(c) ==
    /\ Running /\ conn[c].pc = "list_ret"
    /\ mu' = Free
    /\ Closed(c)
    /\ UNCHANGED << status, records, servers, cancelled, doneClosed, mainPc, accPc,
                    accConn, bcPc, bcTodo, added, removed >>

\* stop: close(ch); closing a closed channel panics
HandleStop(c) ==
    /\ Scanning(c)
    /\ StopLines # {}
    /\ IF doneClosed
       THEN /\ status' = "panic: close of closed channel"
            /\ UNCHANGED << conn, doneClosed >>
       ELSE /\ doneClosed' = TRUE
            /\ Closed(c)
            /\ UNCHANGED status
    /\ UNCHANGED << records, servers, mu, cancelled, mainPc, accPc, accConn, bcPc,
                    bcTodo, added, removed >>

handleConnection(c) ==
    \/ HandleEOF(c) \/ HandleNoFields(c)
    \/ \E line \in PlainLines : HandlePlain(c, line)
    \/ PlainReturn(c)
    \/ \E line \in AddLines : HandleAdd(c, line)
    \/ AddRoute(c) \/ AddReturn(c)
    \/ \E line \in RemoveLines : HandleRemove(c, line)
    \/ RemoveReturn(c)
    \/ HandleList(c) \/ ListReturn(c)
    \/ HandleStop(c)

(***************************************************************************)
(* run: the acceptance goroutine, the signal goroutine and the select loop.*)
(***************************************************************************)
\* listener.Accept() returns a connection: the lowest free slot
Accept ==
    /\ Running /\ accPc = "accept"
    /\ \E c \in Conns :
        /\ conn[c].pc = "free"
        /\ \A d \in Conns : d < c => conn[d].pc # "free"
        /\ conn' = [conn EXCEPT ![c].pc = "accepted"]
        /\ accConn' = c
    /\ accPc' = "send"
    /\ UNCHANGED << status, records, servers, mu, cancelled, doneClosed, mainPc, bcPc,
                    bcTodo, added, removed >>

\* listener.Accept() returns an error: return when cancelled, else log and retry
AcceptError ==
    /\ Running /\ accPc = "accept"
    /\ accPc' = IF cancelled THEN "exited" ELSE "accept"
    /\ UNCHANGED << status, records, servers, mu, cancelled, doneClosed, mainPc,
                    accConn, bcPc, bcTodo, conn, added, removed >>

\* the second select of the acceptance loop takes <-ctx.Done()
AcceptCancelled ==
    /\ Running /\ accPc = "send" /\ cancelled
    /\ accPc' = "exited"
    /\ UNCHANGED << status, records, servers, mu, cancelled, doneClosed, mainPc,
                    accConn, bcPc, bcTodo, conn, added, removed >>

\* case conn := <-connections: go handleConnection(doneChan, conn, df)
RunConnection ==
    /\ Running /\ mainPc = "select" /\ accPc = "send"
    /\ conn' = [conn EXCEPT ![accConn].pc = "scan"]
    /\ accPc' = "accept"
    /\ accConn' = 0
    /\ UNCHANGED << status, records, servers, mu, cancelled, doneClosed, mainPc, bcPc,
                    bcTodo, added, removed >>

\* case <-doneChan: cancel()
RunDone ==
    /\ Running /\ mainPc = "select" /\ doneClosed
    /\ cancelled' = TRUE
    /\ UNCHANGED << status, records, servers, mu, doneClosed, mainPc, accPc, accConn,
                    bcPc, bcTodo, conn, added, removed >>

\* case <-ctx.Done(): df.Shutdown() is called
RunCancelled ==
    /\ Running /\ mainPc = "select" /\ cancelled
    /\ mainPc' = "shutdown"
    /\ UNCHANGED << status, records, servers, mu, cancelled, doneClosed, accPc, accConn,
                    bcPc, bcTodo, conn, added, removed >>

\* Shutdown takes the lock and runs its loop over the records
Shutdown ==
    /\ Running /\ mainPc = "shutdown" /\ mu = Free
    /\ mu' = Main
    /\ servers' = ShutdownAll(records, servers)
    /\ mainPc' = "shutdown_ret"
    /\ UNCHANGED << status, records, cancelled, doneClosed, accPc, accConn, bcPc,
                    bcTodo, conn, added, removed >>

\* Shutdown returns: the deferred Unlock runs
ShutdownReturn ==
    /\ Running /\ mainPc = "shutdown_ret"
    /\ mu' = Free
    /\ mainPc' = "return"
    /\ UNCHANGED << status, records, servers, cancelled, doneClosed, accPc, accConn,
                    bcPc, bcTodo, conn, added, removed >>

\* run returns and the process ends
RunReturn ==
    /\ Running /\ mainPc = "return"
    /\ status' = "exited"
    /\ UNCHANGED << records, servers, mu, cancelled, doneClosed, mainPc, accPc, accConn,
                    bcPc, bcTodo, conn, added, removed >>

\* os.Interrupt or SIGTERM arrives at the signal goroutine: cancel().  The
\* goroutine ends with it; a cancel() of a cancelled context changes nothing.
Interrupt ==
    /\ Running /\ ~cancelled
    /\ cancelled' = TRUE
    /\ UNCHANGED << status, records, servers, mu, doneClosed, mainPc, accPc, accConn,
                    bcPc, bcTodo, conn, added, removed >>

(***************************************************************************)
(* The broadcaster.                                                        *)
(***************************************************************************)
\* case <-ctx.Done(): return
BroadcastStop ==
    /\ Running /\ bcPc = "select" /\ cancelled
    /\ bcPc' = "exited"
    /\ UNCHANGED << status, records, servers, mu, cancelled, doneClosed, mainPc, accPc,
                    accConn, bcTodo, conn, added, removed >>

\* the tick as it would be if broadcastAll did not wait for df.mu
BroadcastAllUnlocked ==
    /\ Running /\ bcPc = "select"
    /\ Len(servers) + Cardinality(DOMAIN records) <= MaxServers
    /\ mu' = Bc
    /\ bcPc' = "loop"
    /\ bcTodo' = DOMAIN records
    /\ UNCHANGED << status, records, servers, cancelled, doneClosed, mainPc, accPc,
                    accConn, conn, added, removed >>

\* case <-ticker.C: broadcastAll() takes the lock and calls utils.GetLocalIP()
BroadcastAll ==
    /\ Running /\ bcPc = "select" /\ mu = Free
    /\ Len(servers) + Cardinality(DOMAIN records) <= MaxServers
    /\ mu' = Bc
    /\ \E ipOk \in BOOLEAN :
        IF ipOk
        THEN /\ bcPc' = "loop"
             /\ bcTodo' = DOMAIN records
             /\ UNCHANGED status
        ELSE /\ status' = "fatal"
             /\ UNCHANGED << bcPc, bcTodo >>
    /\ UNCHANGED << records, servers, cancelled, doneClosed, mainPc, accPc, accConn,
                    conn, added, removed >>

\* one iteration: info.server.Shutdown(), RegisterProxy, info.server = server
BroadcastRecord ==
    /\ Running /\ bcPc = "loop"
    /\ \E k \in bcTodo, regOk \in BOOLEAN :
        IF regOk
        THEN /\ records' = Rebroadcast(records, servers, k).records
             /\ servers' = Rebroadcast(records, servers, k).servers
             /\ bcTodo' = bcTodo \ {k}
             /\ UNCHANGED status
        ELSE /\ servers' = ShutdownServer(servers, records[k].server)
             /\ status' = "fatal"
             /\ UNCHANGED << records, bcTodo >>
    /\ UNCHANGED << mu, cancelled, doneClosed, mainPc, accPc, accConn, bcPc, conn,
                    added, removed >>

\* the loop is over: the deferred Unlock runs
BroadcastReturn ==
    /\ Running /\ bcPc = "loop" /\ bcTodo = {}
    /\ mu' = Free
    /\ bcPc' = "select"
    /\ UNCHANGED << status, records, servers, cancelled, doneClosed, mainPc, accPc,
                    accConn, bcTodo, conn, added, removed >>

Next ==
    \/ \E c \in Conns : handleConnection(c)
    \/ Accept \/ AcceptError \/ AcceptCancelled
    \/ RunConnection \/ RunDone \/ RunCancelled
    \/ Shutdown \/ ShutdownReturn \/ RunReturn
    \/ Interrupt
    \/ BroadcastStop \/ BroadcastAll \/ BroadcastRecord \/ BroadcastReturn

Spec == Init /\ [][Next]_vars

(***************************************************************************)
(* Properties.                                                             *)
(***************************************************************************)
Keys == DOMAIN records

\* the handles on which Shutdown() has not been called
Live == { i \in 1..Len(servers) : servers[i] = 0 }

\* the key Add stores the name of a request under
KeyOf(domain) == fullDomain(TrimSpace(domain))

Count(x, seq) == Cardinality({ i \in 1..Len(seq) : seq[i] = x })

IsRouteFailure(err) == \E e \in RouteErrs : err = RouteFailure(e)

\* C1: when Add returns the error of a failed route synchronization, the
\* handle it created has been released and fullDomain(name) is no key of the
\* registry.
C1_RouteFailureLeavesNoRecord ==
    \A c \in Conns :
        (conn[c].pc = "add_ret" /\ IsRouteFailure(conn[c].err))
            => /\ servers[conn[c].s1] >= 1
               /\ KeyOf(conn[c].domain) \notin Keys

\* C2: remove <name>, after an add <name> that succeeded and that nothing has
\* removed since, returns no error, releases the handle of the record and
\* leaves fullDomain(name) out of the registry.
C2_RemoveUndoesAdd ==
    [][ \A c \in Conns, line \in RemoveLines :
          (HandleRemove(c, line) /\ KeyOf(Parts[line][2]) \in added \cap Keys)
              => LET full == KeyOf(Parts[line][2]) IN
                 /\ conn'[c].err = ""
                 /\ full \notin DOMAIN records'
                 /\ servers'[records[full].server] = servers[records[full].server] + 1
      ]_vars

\* C3: every key whose Add succeeded and that no Remove has deleted since is
\* exactly once in the sequence List returns.
C3_AddedListedOnce ==
    \A c \in Conns :
        conn[c].pc = "list_ret"
            => \A k \in added : Count(k, conn[c].domains) = 1

\* C4: an Add of a name whose fullDomain is a key of the registry returns the
\* AlreadyRegistered error and changes neither the records nor the handles.
C4_DuplicateAddRejected ==
    [][ \A c \in Conns, line \in AddLines :
          (HandleAdd(c, line) /\ KeyOf(Parts[line][2]) \in Keys)
              => /\ status' = "running"
                 /\ conn'[c].pc = "add_ret"
                 /\ conn'[c].err = AlreadyRegistered(KeyOf(Parts[line][2]))
                 /\ records' = records
                 /\ servers' = servers
      ]_vars

\* C5: a Remove of a key that is not in the registry returns the NotFound
\* error and changes neither the records nor the handles: nothing is released.
C5_RemoveUnknownChangesNothing ==
    [][ \A c \in Conns, line \in RemoveLines :
          (HandleRemove(c, line) /\ Parts[line][2] \notin Keys)
              => /\ conn'[c].pc = "remove_ret"
                 /\ conn'[c].err = NotRegistered(Parts[line][2])
                 /\ records' = records
                 /\ servers' = servers
                 /\ status' = "running"
      ]_vars

\* C5's case: remove foo is refused while foo.local is registered and advertised
C5_Witness ==
    \E c \in Conns :
        /\ conn[c].pc = "remove_ret"
        /\ conn[c].err = NotRegistered(conn[c].domain)
        /\ KeyOf(conn[c].domain) \in Keys
        /\ records[KeyOf(conn[c].domain)].server \in Live

\* C6: while nobody holds the lock, every record holds a live handle, no two
\* records hold the same handle and every live handle is held by a record.
C6_RecordIffLiveHandle ==
    (Running /\ mu = Free)
        => /\ \A k \in Keys : records[k].server \in Live
           /\ \A k1, k2 \in Keys : records[k1].server = records[k2].server => k1 = k2
           /\ \A h \in Live : \E k \in Keys : records[k].server = h

\* C7: Shutdown() is called at most once on every handle.
C7_ReleasedAtMostOnce == \A h \in 1..Len(servers) : servers[h] <= 1

\* C8: when Shutdown returns, every handle of a record has been released and
\* the registry is empty.
C8_ShutdownEmptiesRegistry ==
    mainPc = "shutdown_ret"
        => /\ \A k \in Keys : records[k].server \notin Live
           /\ Keys = {}

\* C9: no step of a tick changes the keys of the registry or the service and
\* host of a record; the iteration for a key releases the handle the record
\* held and gives it a new, live one, and changes no other record.
C9_TickKeepsKeys ==
    [][ mu = Bc =>
          /\ DOMAIN records' = Keys
          /\ \A k \in Keys :
                /\ records'[k].service = records[k].service
                /\ records'[k].host = records[k].host
                /\ IF k \in bcTodo \ bcTodo'
                   THEN /\ records'[k].server \notin 1..Len(servers)
                        /\ records'[k].server \in 1..Len(servers')
                        /\ servers'[records'[k].server] = 0
                        /\ servers'[records[k].server] = servers[records[k].server] + 1
                   ELSE records'[k].server = records[k].server
      ]_vars

\* C9's case: a tick has gone through a registry that is not empty
C9_Witness ==
    /\ mu = Bc /\ bcPc = "loop" /\ bcTodo = {}
    /\ \E k \in Keys : records[k].server = Len(servers) /\ Len(servers) > 1

\* C10: once a stop command has been processed, the daemon ends only by run
\* returning after Shutdown, with every advertisement released.
C10_StopEndsInShutdown ==
    (doneClosed /\ ~Running) => (status = "exited" /\ Live = {})

\* C11: a malformed add, a malformed remove or a line with an unknown first
\* token is handled without any change of the records, the handles, the lock
\* or the process, and is answered with the usage line of its command, the
\* invalid-port line or Unknown command.
C11_MalformedCommandRejected ==
    [][ \A c \in Conns :
          /\ \A line \in PlainLines :
                HandlePlain(c, line)
                    => /\ records' = records /\ servers' = servers /\ mu' = mu
                       /\ status' = "running"
                       /\ Len(Reply(c)') = 1
                       /\ IF Parts[line][1] = "add"
                          THEN IF (IF Len(Parts[line]) = 4
                                   THEN Parts[line][3] = "--port" ELSE FALSE)
                               THEN SubSeq(Reply(c)'[1], 1, 21) = "Invalid port number: "
                               ELSE Reply(c)'[1] = "Invalid command. Usage: add <domain> --port <port>"
                          ELSE IF Parts[line][1] = "remove"
                          THEN Reply(c)'[1] = "Invalid command. Usage: remove <domain>"
                          ELSE Reply(c)'[1] = "Unknown command"
          /\ PlainReturn(c)
                => /\ records' = records /\ servers' = servers /\ mu' = mu
                   /\ status' = "running"
      ]_vars

\* C11's case: a malformed add is about to be answered while a domain is registered
C11_Witness ==
    \E c \in Conns :
        /\ conn[c].pc = "plain_ret"
        /\ Parts[conn[c].line][1] = "add"
        /\ Keys # {}

\* C12: a line whose first token is none of add, remove, list and stop, and a
\* line without any token, is answered with Unknown command; the handler
\* returns, the process keeps running and the registry is unchanged.
C12_UnknownCommandAnswered ==
    [][ \A c \in Conns :
          ( \/ HandleNoFields(c)
            \/ \E line \in PlainLines :
                  /\ Parts[line][1] \notin { "add", "remove" }
                  /\ HandlePlain(c, line) )
              => /\ status' = "running"
                 /\ records' = records /\ servers' = servers
                 /\ Reply(c)' = << "Unknown command" >>
      ]_vars

\* C13: an Add in which utils.GetLocalIP() fails returns that error to the
\* handler; the process keeps running and the registry is unchanged.
C13_ResolverFailureReturned ==
    [][ \A c \in Conns, line \in AddLines :
          (HandleAdd(c, line) /\ conn'[c].err = ResolverErr)
              => /\ status' = "running"
                 /\ Reply(c)' = << "Error: " \o ResolverErr >>
                 /\ records' = records /\ servers' = servers
      ]_vars

\* C14: the reply to an add that succeeded names the key the record is stored
\* under, the one list prints: Added domain: <name>.local with port: <port>.
C14_AddedReplyNamesKey ==
    \A c \in Conns :
        (Running /\ conn[c].pc = "add_ret" /\ conn[c].err = "")
            => Reply(c) = << "Added domain: " \o KeyOf(conn[c].domain)
                             \o " with port: " \o Itoa(conn[c].port) >>

\* the handlers that are between the Lock and the Unlock of Add, Remove or List
InOperation ==
    { c \in Conns : conn[c].pc \in { "add_route", "add_ret", "remove_ret", "list_ret" } }

\* C15: once Shutdown has run, no handler is inside an operation of the
\* registry: Shutdown is the last operation of the run.
C15_NoOperationAfterShutdown ==
    mainPc \in { "shutdown_ret", "return" } => InOperation = {}

\* C16: once the context is cancelled, no connection is handed from the
\* acceptance loop to a new handleConnection.
C16_NoHandlerAfterCancel ==
    [][ cancelled
          => \A c \in Conns : ~(conn[c].pc = "accepted" /\ conn'[c].pc = "scan")
      ]_vars

\* C17: a handler that processes stop closes the signal and returns; it never
\* makes the process fail.
C17_StopNeverFails ==
    [][ \A c \in Conns :
          HandleStop(c)
              => /\ status' = "running"
                 /\ doneClosed'
                 /\ conn'[c].pc = "free"
                 /\ mainPc' = mainPc /\ servers' = servers
      ]_vars

\* C18: Add refuses a name as already registered only when an Add of it has
\* succeeded and no Remove has deleted it since: an Add that failed in the
\* route synchronization does not make a later Add of the name fail so.
C18_FailedAddLeavesNameFree ==
    \A c \in Conns :
        (conn[c].pc = "add_ret"
            /\ conn[c].err = AlreadyRegistered(KeyOf(conn[c].domain)))
            => KeyOf(conn[c].domain) \in added

C20_AdvertiserFailureReturned ==
    [][ \A c \in Conns, line \in AddLines :
          (HandleAdd(c, line) /\ conn'[c].err = AdvertiserErr)
              => /\ status' = "running"
                 /\ conn'[c].pc = "add_ret"
                 /\ records' = records /\ servers' = servers
      ]_vars

\* C21: a tick whose utils.GetLocalIP() fails is skipped: the process keeps
\* running, no handle is released or replaced, the lock is given back and the
\* broadcaster waits for the next tick.
C21_TickSkippedOnResolverFailure ==
    [][ (BroadcastAll /\ bcPc' # "loop")
          => /\ status' = "running"
             /\ records' = records /\ servers' = servers
             /\ bcPc' = "select"
      ]_vars

\* C22: a key that a successful Add registered and a successful Remove
\* deleted is out of the registry, and an Add of its name then is not refused
\* as already registered: unless the configuration, the resolver, the
\* advertiser or the route synchronization fails, it returns nil, the record
\* holds a new live handle and List returns the key exactly once.
C22_RemovedNameReAdded ==
    [][ \A c \in Conns :
          IF conn[c].pc = "scan"
          THEN /\ \A line \in RemoveLines :
                     (HandleRemove(c, line) /\ conn'[c].err = "")
                         => Parts[line][2] \notin DOMAIN records'
               /\ removed \ Keys # {}
                     => \A line \in AddLines :
                          (HandleAdd(c, line) /\ KeyOf(Parts[line][2]) \in removed \ Keys)
                            => \/ conn'[c].err
                                    \in ConfigErrs \cup { ResolverErr, AdvertiserErr }
                               \/ /\ conn'[c].err = "" /\ conn'[c].pc = "add_route"
                                  /\ status' = "running"
                                  /\ KeyOf(Parts[line][2]) \in DOMAIN records'
                                  /\ records'[KeyOf(Parts[line][2])].server
                                        \notin 1..Len(servers)
                                  /\ servers'[records'[KeyOf(Parts[line][2])].server] = 0
          ELSE (conn[c].pc = "add_route" /\ AddRoute(c)
                    /\ KeyOf(conn[c].domain) \in removed)
                  => \/ IsRouteFailure(conn'[c].err)
                     \/ /\ conn'[c].err = "" /\ conn'[c].pc = "add_ret"
                        /\ KeyOf(conn[c].domain) \in added'
                        /\ servers'[records'[KeyOf(conn[c].domain)].server] = 0
                        /\ \A snapshot \in Snapshots(records') :
                              Count(KeyOf(conn[c].domain), snapshot) = 1
      ]_vars

\* C22's case: the Add of a name that was added and removed has returned nil
C22_Witness ==
    \E c \in Conns :
        /\ conn[c].pc = "add_ret" /\ conn[c].err = ""
        /\ KeyOf(conn[c].domain) \in removed \cap added \cap Keys
        /\ records[KeyOf(conn[c].domain)].server = conn[c].s1
        /\ conn[c].s1 \in Live

====
